---- MODULE Spec2Model ----
(***************************************************************************)
(* Model of the Mpich package recipe                                       *)
(* (var/spack/repos/builtin/packages/mpich/package.py).                    *)
(*                                                                         *)
(* Strings are TLA+ strings: format() is concatenation (\o), startswith is *)
(* a comparison of the leading characters, join_path inserts "/".          *)
(*                                                                         *)
(* Two specifications:                                                     *)
(*   Spec      - every concrete choice of the declared variants and        *)
(*               versions; the conflict table and configure_args are       *)
(*               applied to it.                                            *)
(*   SpecBuild - the life of one installation of the default spec: build   *)
(*               environment, the Fortran check, autoreconf, configure,    *)
(*               and the hooks run for the packages that depend on it.     *)
(***************************************************************************)
EXTENDS Integers, Sequences, FiniteSets, TLC

VARIABLES
    spec,             \* self.spec: variants, version, platform
    compiler,         \* self.compiler: cc, f77, fc (None when absent)
    wrappers,         \* spack_cc, spack_cxx, spack_f77, spack_fc
    env,              \* the package's own build environment
    dep_env,          \* the build environment of a dependent
    spec_attrs,       \* attributes set on self.spec for dependents
    configure_exists, \* os.path.exists(self.configure_abs_path)
    bash,             \* which('bash')
    pc,               \* position in the life of the installation
    error,            \* the exception that ended it, or None
    ran,              \* hooks and phases entered, in order
    invoked,          \* external commands invoked, in order
    violated,         \* conflict rules the spec violates
    config_args,      \* the list configure_args returned
    lookups,          \* packages looked up with spec[name]
    called,           \* dependent hooks run for the current dependent
    dependents        \* dependents fully set up so far

vars == <<spec, compiler, wrappers, env, dep_env, spec_attrs, configure_exists,
          bash, pc, error, ran, invoked, violated, config_args, lookups,
          called, dependents>>

\* Number of dependent packages built against the installation.
MaxDependents == 2

None == "None"
Unset == "<unset>"

(***************************************************************************)
(* Declarations of the recipe                                              *)
(***************************************************************************)

\* version(...) directives, as the numeric components of each version.
versions ==
    [ develop |-> <<>>,
      v3_3_2 |-> <<3, 3, 2>>, v3_3_1 |-> <<3, 3, 1>>, v3_3 |-> <<3, 3>>,
      v3_2_1 |-> <<3, 2, 1>>, v3_2 |-> <<3, 2>>,
      v3_1_4 |-> <<3, 1, 4>>, v3_1_3 |-> <<3, 1, 3>>, v3_1_2 |-> <<3, 1, 2>>,
      v3_1_1 |-> <<3, 1, 1>>, v3_1 |-> <<3, 1>>, v3_0_4 |-> <<3, 0, 4>> ]

Versions == DOMAIN versions

PmiValues == {"off", "pmi", "pmi2", "pmix"}
DeviceValues == {"ch3", "ch4"}
NetmodValues == {"tcp", "mxm", "ofi", "ucx"}
Platforms == {"linux", "darwin", "cray"}

\* variant(...) directives: the default value of each variant.
variant_defaults(platform) ==
    [ hydra |-> TRUE, romio |-> TRUE, verbs |-> FALSE, slurm |-> FALSE,
      wrapperrpath |-> TRUE, pmi |-> "pmi", device |-> "ch3",
      netmod |-> "tcp", pci |-> (platform # "darwin") ]

\* Every concrete spec: one value for each variant, a version, a platform.
Specs ==
    [ hydra : BOOLEAN, romio : BOOLEAN, verbs : BOOLEAN, slurm : BOOLEAN,
      wrapperrpath : BOOLEAN, pmi : PmiValues, device : DeviceValues,
      netmod : NetmodValues, pci : BOOLEAN, version : Versions,
      platform : Platforms ]

DefaultSpec(platform) ==
    [ k \in {"hydra", "romio", "verbs", "slurm", "wrapperrpath", "pmi",
             "device", "netmod", "pci", "version", "platform"} |->
        CASE k = "version" -> "v3_3_2"
          [] k = "platform" -> platform
          [] OTHER -> variant_defaults(platform)[k] ]

RECURSIVE LexLE(_, _)
\* Component-wise order of two numeric versions.
LexLE(a, b) ==
    IF a = <<>> THEN TRUE
    ELSE IF b = <<>> THEN FALSE
    ELSE IF a[1] # b[1] THEN a[1] < b[1]
    ELSE LexLE(Tail(a), Tail(b))

IsPrefix(p, s) == Len(p) <= Len(s) /\ SubSeq(s, 1, Len(p)) = p

\* v satisfies '@:hi'. A version that extends hi (3.2.1 for hi = 3.2) is
\* inside the range; develop is newer than every numbered version.
VersionUpTo(v, hi) ==
    /\ v # "develop"
    /\ \/ LexLE(versions[v], versions[hi])
       \/ IsPrefix(versions[hi], versions[v])

\* 'constraint' in spec: every variant the constraint names has that value.
Satisfies(s, c) ==
    \A k \in DOMAIN c :
        IF k = "version_upto" THEN VersionUpTo(s.version, c[k])
        ELSE s[k] = c[k]

\* depends_on(name, when=...), in the order of the declarations.
depends_on_no_ucx ==
    << [ name |-> "findutils", when |-> << >> ],
       [ name |-> "pkgconfig", when |-> << >> ],
       [ name |-> "libfabric", when |-> [ netmod |-> "ofi" ] ],
       [ name |-> "libfabric", when |-> [ device |-> "ch3", netmod |-> "ofi" ] ],
       [ name |-> "libpciaccess", when |-> [ pci |-> TRUE ] ],
       [ name |-> "libxml2", when |-> << >> ],
       [ name |-> "slurm", when |-> [ slurm |-> TRUE ] ],
       [ name |-> "pmix", when |-> [ pmi |-> "pmix" ] ] >>

depends_on ==
    << [ name |-> "findutils", when |-> << >> ],
       [ name |-> "pkgconfig", when |-> << >> ],
       [ name |-> "libfabric", when |-> [ netmod |-> "ofi" ] ],
       [ name |-> "libfabric", when |-> [ device |-> "ch3", netmod |-> "ofi" ] ],
       [ name |-> "ucx", when |-> [ netmod |-> "ucx" ] ],
       [ name |-> "libpciaccess", when |-> [ pci |-> TRUE ] ],
       [ name |-> "libxml2", when |-> << >> ],
       [ name |-> "slurm", when |-> [ slurm |-> TRUE ] ],
       [ name |-> "pmix", when |-> [ pmi |-> "pmix" ] ] >>

\* The packages present in a concrete spec's dependencies.
Dependencies(s) ==
    { depends_on[i].name :
        i \in { j \in DOMAIN depends_on : Satisfies(s, depends_on[j].when) } }

\* conflicts(constraint, when=...): rule i is violated by a spec that
\* satisfies both its constraint and its when clause.
conflicts_no_tcp_rule ==
    << [ constraint |-> [ device |-> "ch4" ], when |-> [ version_upto |-> "v3_2" ] ],
       [ constraint |-> [ netmod |-> "ofi" ], when |-> [ version_upto |-> "v3_1_4" ] ],
       [ constraint |-> [ netmod |-> "ucx" ], when |-> [ device |-> "ch3" ] ],
       [ constraint |-> [ netmod |-> "mxm" ], when |-> [ device |-> "ch4" ] ],
       [ constraint |-> [ netmod |-> "mxm" ], when |-> [ version_upto |-> "v3_1_3" ] ],
       [ constraint |-> [ pmi |-> "pmi2" ], when |-> [ device |-> "ch3", netmod |-> "ofi" ] ],
       [ constraint |-> [ pmi |-> "pmix" ], when |-> [ device |-> "ch3" ] ] >>

conflicts ==
    << [ constraint |-> [ device |-> "ch4" ], when |-> [ version_upto |-> "v3_2" ] ],
       [ constraint |-> [ netmod |-> "ofi" ], when |-> [ version_upto |-> "v3_1_4" ] ],
       [ constraint |-> [ netmod |-> "ucx" ], when |-> [ device |-> "ch3" ] ],
       [ constraint |-> [ netmod |-> "mxm" ], when |-> [ device |-> "ch4" ] ],
       [ constraint |-> [ netmod |-> "mxm" ], when |-> [ version_upto |-> "v3_1_3" ] ],
       [ constraint |-> [ netmod |-> "tcp" ], when |-> [ device |-> "ch4" ] ],
       [ constraint |-> [ pmi |-> "pmi2" ], when |-> [ device |-> "ch3", netmod |-> "ofi" ] ],
       [ constraint |-> [ pmi |-> "pmix" ], when |-> [ device |-> "ch3" ] ] >>

ViolatedConflicts(s) ==
    { i \in DOMAIN conflicts :
        Satisfies(s, conflicts[i].constraint) /\ Satisfies(s, conflicts[i].when) }

(***************************************************************************)
(* Paths and strings                                                       *)
(***************************************************************************)

join_path(a, b) == a \o "/" \o b

\* Install prefix of a package.
Prefix(name) == join_path("/opt", name)

StartsWith(s, p) == Len(s) >= Len(p) /\ SubSeq(s, 1, Len(p)) = p

dso_suffix(platform) == IF platform = "darwin" THEN "dylib" ELSE "so"

RECURSIVE Texts(_)
\* The strings of a list of argument items.
Texts(items) ==
    IF items = <<>> THEN <<>> ELSE <<Head(items).text>> \o Texts(Tail(items))

RECURSIVE Looked(_)
\* The packages the items looked up in the spec.
Looked(items) ==
    IF items = <<>> THEN {} ELSE Head(items).lookup \cup Looked(Tail(items))

\* An argument built without a dependency lookup, and one built from
\* spec[name].
Plain(text) == [ text |-> text, lookup |-> {} ]
FromDep(text, name) == [ text |-> text, lookup |-> {name} ]

(***************************************************************************)
(* configure_args                                                          *)
(***************************************************************************)

base_args(s) ==
    << Plain("--enable-shared"),
       Plain("--with-pm=" \o (IF Satisfies(s, [ hydra |-> TRUE ]) THEN "hydra" ELSE "no")),
       Plain("--" \o (IF Satisfies(s, [ romio |-> TRUE ]) THEN "enable" ELSE "disable")
                  \o "-romio"),
       Plain("--" \o (IF Satisfies(s, [ verbs |-> TRUE ]) THEN "with" ELSE "without")
                  \o "-ibverbs"),
       Plain("--enable-wrapper-rpath="
                  \o (IF Satisfies(s, [ wrapperrpath |-> FALSE ]) THEN "no" ELSE "yes")) >>

slurm_args(s) ==
    IF Satisfies(s, [ slurm |-> TRUE ])
    THEN << Plain("--with-slurm=yes"),
            FromDep("--with-slurm-include=" \o join_path(Prefix("slurm"), "include"), "slurm"),
            FromDep("--with-slurm-lib=" \o join_path(Prefix("slurm"), "lib"), "slurm") >>
    ELSE << Plain("--with-slurm=no") >>

pmi_args_both(s) ==
    IF Satisfies(s, [ pmi |-> "off" ]) THEN << Plain("--with-pmi=no") >>
    ELSE IF Satisfies(s, [ pmi |-> "pmi" ]) THEN << Plain("--with-pmi=simple") >>
    ELSE IF Satisfies(s, [ pmi |-> "pmi2" ]) THEN << Plain("--with-pmi=pmi2/simple") >>
    ELSE IF Satisfies(s, [ pmi |-> "pmix" ])
         THEN << Plain("--with-pmi=simple"),
                 FromDep("--with-pmix=" \o Prefix("pmix"), "pmix") >>
    ELSE << >>

pmi_args(s) ==
    IF Satisfies(s, [ pmi |-> "off" ]) THEN << Plain("--with-pmi=no") >>
    ELSE IF Satisfies(s, [ pmi |-> "pmi" ]) THEN << Plain("--with-pmi=simple") >>
    ELSE IF Satisfies(s, [ pmi |-> "pmi2" ]) THEN << Plain("--with-pmi=pmi2/simple") >>
    ELSE IF Satisfies(s, [ pmi |-> "pmix" ])
         THEN << FromDep("--with-pmix=" \o Prefix("pmix"), "pmix") >>
    ELSE << >>

device_config_no_tcp(s) ==
    (IF Satisfies(s, [ device |-> "ch4" ]) THEN "--with-device=ch4:"
     ELSE IF Satisfies(s, [ device |-> "ch3" ]) THEN "--with-device=ch3:nemesis:"
     ELSE "")
    \o
    (IF Satisfies(s, [ netmod |-> "ucx" ]) THEN "ucx"
     ELSE IF Satisfies(s, [ netmod |-> "ofi" ]) THEN "ofi"
     ELSE IF Satisfies(s, [ netmod |-> "mxm" ]) THEN "mxm"
     ELSE "")

\* device_config: the device prefix, then the netmod appended to it.
device_config(s) ==
    (IF Satisfies(s, [ device |-> "ch4" ]) THEN "--with-device=ch4:"
     ELSE IF Satisfies(s, [ device |-> "ch3" ]) THEN "--with-device=ch3:nemesis:"
     ELSE "")
    \o
    (IF Satisfies(s, [ netmod |-> "ucx" ]) THEN "ucx"
     ELSE IF Satisfies(s, [ netmod |-> "ofi" ]) THEN "ofi"
     ELSE IF Satisfies(s, [ netmod |-> "mxm" ]) THEN "mxm"
     ELSE IF Satisfies(s, [ netmod |-> "tcp" ]) THEN "tcp"
     ELSE "")

netmod_path_args(s) ==
    (IF Satisfies(s, [ netmod |-> "ofi" ])
     THEN << FromDep("--with-libfabric=" \o Prefix("libfabric"), "libfabric") >>
     ELSE << >>)
    \o
    (IF Satisfies(s, [ netmod |-> "ucx" ])
     THEN << FromDep("--with-ucx=" \o Prefix("ucx"), "ucx") >>
     ELSE << >>)

romio_always_enabled(s) ==
    << Plain("--enable-shared"),
       Plain("--with-pm=" \o (IF Satisfies(s, [ hydra |-> TRUE ]) THEN "hydra" ELSE "no")),
       Plain("--enable-romio"),
       Plain("--" \o (IF Satisfies(s, [ verbs |-> TRUE ]) THEN "with" ELSE "without")
                  \o "-ibverbs"),
       Plain("--enable-wrapper-rpath="
                  \o (IF Satisfies(s, [ wrapperrpath |-> FALSE ]) THEN "no" ELSE "yes")) >>
    \o slurm_args(s) \o pmi_args(s) \o << Plain(device_config(s)) >>
    \o netmod_path_args(s)

\* The items of the list configure_args builds, in order.
configure_args(s) ==
    base_args(s) \o slurm_args(s) \o pmi_args(s) \o << Plain(device_config(s)) >>
    \o netmod_path_args(s)

(***************************************************************************)
(* Build steps of the recipe                                               *)
(***************************************************************************)

EnvNames == {"F90", "F90FLAGS"}
DepEnvNames == {"MPICC", "MPICXX", "MPIF77", "MPIF90",
                "MPICH_CC", "MPICH_CXX", "MPICH_F77", "MPICH_F90", "MPICH_FC"}

\* The compiler wrappers the build environment hands to packages, for a
\* toolchain whose f77 and fc wrappers are one file (gcc) and for one where
\* they are two (xl).
CompilerWrappers ==
    { [ spack_cc |-> "/spack/env/gcc/gcc", spack_cxx |-> "/spack/env/gcc/g++",
        spack_f77 |-> "/spack/env/gcc/gfortran", spack_fc |-> "/spack/env/gcc/gfortran" ],
      [ spack_cc |-> "/spack/env/xl/xlc", spack_cxx |-> "/spack/env/xl/xlc++",
        spack_f77 |-> "/spack/env/xl/xlf", spack_fc |-> "/spack/env/xl/xlf90" ] }

\* self.compiler: each of cc, f77, fc is a path or None.
Compilers ==
    [ cc : {None, "/usr/bin/cc"}, f77 : {None, "/usr/bin/f77"},
      fc : {None, "/usr/bin/fc"} ]

NoAttrs ==
    [ mpicc |-> None, mpicxx |-> None, mpifc |-> None, mpif77 |-> None,
      mpicxx_shared_libs |-> << >> ]

\* setup_build_environment: env.unset('F90'); env.unset('F90FLAGS')
setup_build_environment(e) ==
    [ e EXCEPT !["F90"] = Unset, !["F90FLAGS"] = Unset ]

SetupBuildEnvironment ==
    /\ pc = "setup_build_environment"
    /\ env' = setup_build_environment(env)
    /\ ran' = Append(ran, "setup_build_environment")
    /\ pc' = "die_without_fortran"
    /\ UNCHANGED <<spec, compiler, wrappers, dep_env, spec_attrs,
                   configure_exists, bash, error, invoked, violated,
                   config_args, lookups, called, dependents>>

fortran_missing_both(c) == (c.f77 = None) /\ (c.fc = None)

\* The condition under which die_without_fortran raises InstallError.
fortran_missing(c) == (c.f77 = None) \/ (c.fc = None)

\* @run_before('autoreconf') die_without_fortran
DieWithoutFortran ==
    /\ pc = "die_without_fortran"
    /\ ran' = Append(ran, "die_without_fortran")
    /\ IF fortran_missing(compiler)
       THEN error' = "InstallError" /\ pc' = "failed"
       ELSE error' = error /\ pc' = "autoreconf"
    /\ UNCHANGED <<spec, compiler, wrappers, env, dep_env, spec_attrs,
                   configure_exists, bash, invoked, violated, config_args,
                   lookups, called, dependents>>

bootstrap_always(exists) == TRUE

\* autoreconf returns at once when configure exists, else it bootstraps.
needs_bootstrap(exists) == ~exists

\* autoreconf: bash = which('bash'); bash('./autogen.sh')
Autoreconf ==
    /\ pc = "autoreconf"
    /\ ran' = Append(ran, "autoreconf")
    /\ IF ~needs_bootstrap(configure_exists)
       THEN /\ pc' = "configure"
            /\ UNCHANGED <<error, invoked>>
       ELSE IF bash = None
       THEN /\ error' = "TypeError"
            /\ pc' = "failed"
            /\ UNCHANGED invoked
       ELSE /\ invoked' = Append(invoked, <<bash, "./autogen.sh">>)
            /\ \E ok \in BOOLEAN :
                 IF ok THEN error' = error /\ pc' = "configure"
                 ELSE error' = "ProcessError" /\ pc' = "failed"
    /\ UNCHANGED <<spec, compiler, wrappers, env, dep_env, spec_attrs,
                   configure_exists, bash, violated, config_args, lookups,
                   called, dependents>>

\* The conflict table applied to the spec.
CheckConflicts ==
    /\ pc = "concretize"
    /\ violated' = ViolatedConflicts(spec)
    /\ ran' = Append(ran, "conflicts")
    /\ pc' = "configure"
    /\ UNCHANGED <<spec, compiler, wrappers, env, dep_env, spec_attrs,
                   configure_exists, bash, error, invoked, config_args,
                   lookups, called, dependents>>

\* configure_args called on the spec; spec[name] raises KeyError for a
\* package that is not among the spec's dependencies.
ConfigureArgs ==
    /\ pc = "configure"
    /\ ran' = Append(ran, "configure_args")
    /\ LET items == configure_args(spec) IN
         /\ lookups' = Looked(items)
         /\ IF Looked(items) \subseteq Dependencies(spec)
            THEN /\ config_args' = Texts(items)
                 /\ error' = error
                 /\ pc' = "installed"
            ELSE /\ config_args' = config_args
                 /\ error' = "KeyError"
                 /\ pc' = "failed"
    /\ UNCHANGED <<spec, compiler, wrappers, env, dep_env, spec_attrs,
                   configure_exists, bash, invoked, violated, called,
                   dependents>>

DependentHooks == {"setup_dependent_build_environment", "setup_dependent_package"}

\* Both hooks run once for each dependent, in either order.
HookDone(hook) ==
    /\ called' = IF called \cup {hook} = DependentHooks THEN {} ELSE called \cup {hook}
    /\ dependents' = IF called \cup {hook} = DependentHooks
                     THEN dependents + 1 ELSE dependents

\* setup_dependent_build_environment(env, dependent_spec)
setup_dependent_build_environment(e, s, w) ==
    LET bin == join_path(Prefix("mpich"), "bin")
        mpi == IF Satisfies(s, [ platform |-> "cray" ])
               THEN [ MPICC |-> w.spack_cc, MPICXX |-> w.spack_cxx,
                      MPIF77 |-> w.spack_fc, MPIF90 |-> w.spack_fc ]
               ELSE [ MPICC |-> join_path(bin, "mpicc"),
                      MPICXX |-> join_path(bin, "mpic++"),
                      MPIF77 |-> join_path(bin, "mpif77"),
                      MPIF90 |-> join_path(bin, "mpif90") ]
        mpich == [ MPICH_CC |-> w.spack_cc, MPICH_CXX |-> w.spack_cxx,
                   MPICH_F77 |-> w.spack_f77, MPICH_F90 |-> w.spack_fc,
                   MPICH_FC |-> w.spack_fc ]
    IN  [ n \in DOMAIN e |->
            IF n \in DOMAIN mpi THEN mpi[n]
            ELSE IF n \in DOMAIN mpich THEN mpich[n]
            ELSE e[n] ]

SetupDependentBuildEnvironment ==
    /\ pc = "installed"
    /\ dependents < MaxDependents
    /\ "setup_dependent_build_environment" \notin called
    /\ dep_env' = setup_dependent_build_environment(dep_env, spec, wrappers)
    /\ HookDone("setup_dependent_build_environment")
    /\ UNCHANGED <<spec, compiler, wrappers, env, spec_attrs, configure_exists,
                   bash, pc, error, ran, invoked, violated, config_args,
                   lookups>>

\* setup_dependent_package(module, dependent_spec)
setup_dependent_package(s, w) ==
    LET bin == join_path(Prefix("mpich"), "bin")
        lib == join_path(Prefix("mpich"), "lib")
        libs == << join_path(lib, "libmpicxx." \o dso_suffix(s.platform)),
                   join_path(lib, "libmpi." \o dso_suffix(s.platform)) >>
    IN  IF Satisfies(s, [ platform |-> "cray" ])
        THEN [ mpicc |-> w.spack_cc, mpicxx |-> w.spack_cxx,
               mpifc |-> w.spack_fc, mpif77 |-> w.spack_f77,
               mpicxx_shared_libs |-> libs ]
        ELSE [ mpicc |-> join_path(bin, "mpicc"),
               mpicxx |-> join_path(bin, "mpic++"),
               mpifc |-> join_path(bin, "mpif90"),
               mpif77 |-> join_path(bin, "mpif77"),
               mpicxx_shared_libs |-> libs ]

SetupDependentPackage ==
    /\ pc = "installed"
    /\ dependents < MaxDependents
    /\ "setup_dependent_package" \notin called
    /\ spec_attrs' = setup_dependent_package(spec, wrappers)
    /\ HookDone("setup_dependent_package")
    /\ UNCHANGED <<spec, compiler, wrappers, env, dep_env, configure_exists,
                   bash, pc, error, ran, invoked, violated, config_args,
                   lookups>>

(***************************************************************************)
(* Specifications                                                          *)
(***************************************************************************)

\* What both specifications start from, besides the spec and the machine.
InitCommon ==
    /\ dep_env = [ n \in DepEnvNames |-> Unset ]
    /\ spec_attrs = NoAttrs
    /\ error = None
    /\ ran = << >>
    /\ invoked = << >>
    /\ violated = {}
    /\ config_args = << >>
    /\ lookups = {}
    /\ called = {}
    /\ dependents = 0

\* Every concrete spec, on a machine with all compilers and a configure
\* script: the conflict table, then configure_args.
Init ==
    /\ spec \in Specs
    /\ compiler = [ cc |-> "/usr/bin/cc", f77 |-> "/usr/bin/f77", fc |-> "/usr/bin/fc" ]
    /\ wrappers = CHOOSE w \in CompilerWrappers : w.spack_f77 = w.spack_fc
    /\ env = [ n \in EnvNames |-> Unset ]
    /\ configure_exists = TRUE
    /\ bash = "/bin/bash"
    /\ pc = "concretize"
    /\ InitCommon

Next == CheckConflicts \/ ConfigureArgs

Spec == Init /\ [][Next]_vars

\* The default spec, on every machine: the installation from its build
\* environment to the hooks run for its dependents.
InitBuild ==
    /\ spec \in { DefaultSpec(p) : p \in Platforms }
    /\ compiler \in Compilers
    /\ wrappers \in CompilerWrappers
    /\ env \in [ EnvNames -> {Unset, "set"} ]
    /\ configure_exists \in BOOLEAN
    /\ bash \in {None, "/bin/bash"}
    /\ pc = "setup_build_environment"
    /\ InitCommon

NextBuild ==
    \/ SetupBuildEnvironment
    \/ DieWithoutFortran
    \/ Autoreconf
    \/ ConfigureArgs
    \/ SetupDependentBuildEnvironment
    \/ SetupDependentPackage

SpecBuild == InitBuild /\ [][NextBuild]_vars

(***************************************************************************)
(* Properties                                                              *)
(***************************************************************************)

HasRun(hook) == \E i \in DOMAIN ran : ran[i] = hook

\* Positions of the arguments that start with prefix p.
WithPrefix(args, p) == { i \in DOMAIN args : StartsWith(args[i], p) }

\* Exactly one argument starts with p, and it is text.
TheOnly(args, p, text) ==
    \E i \in DOMAIN args : WithPrefix(args, p) = {i} /\ args[i] = text

Contains(args, text) == \E i \in DOMAIN args : args[i] = text

YesNo(b) == IF b THEN "yes" ELSE "no"

\* C1: once die_without_fortran has run, InstallError has been raised if and
\* only if the compiler's f77 is None or its fc is None; with both Fortran
\* compilers present the check raises nothing and the build proceeds to
\* autoreconf.
C1_DieIffFortranMissing ==
    HasRun("die_without_fortran") =>
        /\ (error = "InstallError") <=> (compiler.f77 = None \/ compiler.fc = None)
        /\ (compiler.f77 # None /\ compiler.fc # None /\ ~HasRun("autoreconf"))
              => (pc = "autoreconf" /\ error = None)

\* C1 witness: the check raised with only one Fortran compiler missing.
C1_Witness ==
    /\ HasRun("die_without_fortran")
    /\ compiler.f77 # None
    /\ compiler.fc = None
    /\ error = "InstallError"

\* C2: once die_without_fortran has run with the C compiler or a Fortran
\* compiler (f77 or fc) absent, the installation has failed with InstallError.
C2_DieWithoutAnyCompiler ==
    (HasRun("die_without_fortran")
        /\ (compiler.cc = None \/ compiler.f77 = None \/ compiler.fc = None))
    => (pc = "failed" /\ error = "InstallError")

\* C3: the list configure_args returns matches the boolean variants: it
\* contains --enable-shared and exactly one --with-pm= (hydra iff +hydra, else
\* no), one of --enable-romio / --disable-romio (enable iff +romio), one of
\* --with-ibverbs / --without-ibverbs (with iff +verbs), one
\* --enable-wrapper-rpath= (yes iff +wrapperrpath), one --with-slurm= (yes iff
\* +slurm); --with-slurm-include= and --with-slurm-lib= are present iff +slurm.
C3_BooleanVariantFlags ==
    HasRun("configure_args") =>
        /\ pc = "installed"
        /\ Contains(config_args, "--enable-shared")
        /\ TheOnly(config_args, "--with-pm=",
                   IF spec.hydra THEN "--with-pm=hydra" ELSE "--with-pm=no")
        /\ Cardinality({ i \in DOMAIN config_args :
                config_args[i] \in {"--enable-romio", "--disable-romio"} }) = 1
        /\ Contains(config_args, "--enable-romio") <=> spec.romio
        /\ Cardinality({ i \in DOMAIN config_args :
                config_args[i] \in {"--with-ibverbs", "--without-ibverbs"} }) = 1
        /\ Contains(config_args, "--with-ibverbs") <=> spec.verbs
        /\ TheOnly(config_args, "--enable-wrapper-rpath=",
                   "--enable-wrapper-rpath=" \o YesNo(spec.wrapperrpath))
        /\ TheOnly(config_args, "--with-slurm=", "--with-slurm=" \o YesNo(spec.slurm))
        /\ (WithPrefix(config_args, "--with-slurm-include=") # {}) <=> spec.slurm
        /\ (WithPrefix(config_args, "--with-slurm-lib=") # {}) <=> spec.slurm

\* C3 witness: configure_args returned for a spec with the non-default value
\* of each of the five boolean variants.
C3_Witness ==
    /\ pc = "installed"
    /\ ~spec.hydra /\ ~spec.romio /\ spec.verbs /\ ~spec.wrapperrpath /\ spec.slurm
    /\ Contains(config_args, "--disable-romio")
    /\ Contains(config_args, "--with-slurm=yes")

\* C4: configure_args returns exactly one argument that starts with
\* --with-device=, namely --with-device=ch4:<netmod> for device=ch4 and
\* --with-device=ch3:nemesis:<netmod> for device=ch3, with the selected
\* netmod; no argument is empty or a bare device prefix.
C4_DeviceArgument ==
    HasRun("configure_args") =>
        /\ pc = "installed"
        /\ TheOnly(config_args, "--with-device=",
                   (IF spec.device = "ch4" THEN "--with-device=ch4:"
                    ELSE "--with-device=ch3:nemesis:") \o spec.netmod)
        /\ \A i \in DOMAIN config_args :
              config_args[i] \notin {"", "--with-device=ch4:", "--with-device=ch3:nemesis:"}

\* C4 witness: configure_args returned for device=ch3 netmod=tcp.
C4_Witness ==
    /\ pc = "installed"
    /\ spec.device = "ch3"
    /\ spec.netmod = "tcp"
    /\ Contains(config_args, "--with-device=ch3:nemesis:tcp")

\* C5: die_without_fortran runs before autoreconf; ./autogen.sh is invoked
\* only when the Fortran check passed and configure does not exist: after an
\* InstallError nothing is invoked, and when configure exists nothing is
\* invoked.
C5_BootstrapOnlyWhenNeeded ==
    /\ HasRun("autoreconf") =>
          \E i, j \in DOMAIN ran :
              i < j /\ ran[i] = "die_without_fortran" /\ ran[j] = "autoreconf"
    /\ \A i \in DOMAIN invoked : invoked[i][2] = "./autogen.sh"
    /\ invoked # << >> =>
          /\ compiler.f77 # None /\ compiler.fc # None
          /\ ~configure_exists
          /\ HasRun("autoreconf")
    /\ error = "InstallError" => (invoked = << >> /\ ~HasRun("autoreconf"))
    /\ configure_exists => invoked = << >>

\* C5 witness: the check passed, configure was missing, autogen.sh was invoked.
C5_Witness ==
    /\ invoked = << <<"/bin/bash", "./autogen.sh">> >>
    /\ ~configure_exists
    /\ pc = "configure"

FivePairs ==
    { <<"ch3", "tcp">>, <<"ch3", "mxm">>, <<"ch3", "ofi">>,
      <<"ch4", "ofi">>, <<"ch4", "ucx">> }

\* C6: a spec that violates no conflict has (device, netmod) among ch3:tcp,
\* ch3:mxm, ch3:ofi, ch4:ofi, ch4:ucx, has pmi=pmix only with device=ch4 and
\* never pmi=pmi2 with device=ch3 netmod=ofi; and each of the five pairs
\* violates no conflict at version 3.3.2 with pmi=pmi.
C6_ConflictFreeSpecs ==
    HasRun("conflicts") =>
        /\ violated = {} =>
              /\ <<spec.device, spec.netmod>> \in FivePairs
              /\ spec.pmi = "pmix" => spec.device = "ch4"
              /\ ~(spec.pmi = "pmi2" /\ spec.device = "ch3" /\ spec.netmod = "ofi")
        /\ (spec.version = "v3_3_2" /\ spec.pmi = "pmi"
                /\ <<spec.device, spec.netmod>> \in FivePairs)
              => violated = {}

\* C6 witness: the conflict table was applied to ch4:ucx with pmi=pmix and
\* found nothing violated.
C6_Witness ==
    /\ HasRun("conflicts")
    /\ violated = {}
    /\ spec.device = "ch4" /\ spec.netmod = "ucx" /\ spec.pmi = "pmix"

\* C7: configure_args emits exactly one PMI flag: --with-pmi=no for off,
\* --with-pmi=simple for pmi, --with-pmi=pmi2/simple for pmi2 and
\* --with-pmix=<pmix prefix> for pmix; --with-pmi= and --with-pmix= never
\* appear together.
C7_OnePmiFlag ==
    HasRun("configure_args") =>
        LET pmi == WithPrefix(config_args, "--with-pmi=")
            pmix == WithPrefix(config_args, "--with-pmix=")
        IN  /\ pc = "installed"
            /\ Cardinality(pmi \cup pmix) = 1
            /\ pmi = {} \/ pmix = {}
            /\ \A i \in pmi \cup pmix :
                  config_args[i] =
                      CASE spec.pmi = "off" -> "--with-pmi=no"
                        [] spec.pmi = "pmi" -> "--with-pmi=simple"
                        [] spec.pmi = "pmi2" -> "--with-pmi=pmi2/simple"
                        [] spec.pmi = "pmix" -> "--with-pmix=/opt/pmix"

\* C7 witness: configure_args returned the pmix flag for pmi=pmix.
C7_Witness ==
    /\ pc = "installed"
    /\ spec.pmi = "pmix"
    /\ Contains(config_args, "--with-pmix=/opt/pmix")

\* C8: every package configure_args looks up in the spec is one of the
\* spec's dependencies, so no lookup fails; --with-libfabric= is emitted iff
\* netmod=ofi and --with-ucx= iff netmod=ucx.
C8_LookupsAreDependencies ==
    HasRun("configure_args") =>
        /\ lookups \subseteq Dependencies(spec)
        /\ lookups \subseteq {"slurm", "pmix", "libfabric", "ucx"}
        /\ error = None
        /\ (WithPrefix(config_args, "--with-libfabric=") # {}) <=> (spec.netmod = "ofi")
        /\ (WithPrefix(config_args, "--with-ucx=") # {}) <=> (spec.netmod = "ucx")

\* C8 witness: configure_args looked up slurm, pmix and ucx and returned.
C8_Witness ==
    /\ pc = "installed"
    /\ lookups = {"slurm", "pmix", "ucx"}
    /\ Contains(config_args, "--with-ucx=/opt/ucx")

\* C9: once both dependent hooks have run, MPICC, MPICXX, MPIF77, MPIF90 in
\* the dependent's environment equal spec.mpicc, spec.mpicxx, spec.mpif77,
\* spec.mpifc; on Cray they are the compiler wrappers, elsewhere paths under
\* the prefix's bin directory; MPICH_CC/CXX/F77/F90/FC are the compiler
\* wrappers on every platform.
C9_EnvAgreesWithSpecAttrs ==
    (dep_env["MPICC"] # Unset /\ spec_attrs.mpicc # None) =>
        /\ dep_env["MPICC"] = spec_attrs.mpicc
        /\ dep_env["MPICXX"] = spec_attrs.mpicxx
        /\ dep_env["MPIF77"] = spec_attrs.mpif77
        /\ dep_env["MPIF90"] = spec_attrs.mpifc
        /\ \A n \in {"MPICC", "MPICXX", "MPIF77", "MPIF90"} :
              IF spec.platform = "cray"
              THEN StartsWith(dep_env[n], "/spack/env/")
              ELSE StartsWith(dep_env[n], "/opt/mpich/bin/")
        /\ dep_env["MPICH_CC"] = wrappers.spack_cc
        /\ dep_env["MPICH_CXX"] = wrappers.spack_cxx
        /\ dep_env["MPICH_F77"] = wrappers.spack_f77
        /\ dep_env["MPICH_F90"] = wrappers.spack_fc
        /\ dep_env["MPICH_FC"] = wrappers.spack_fc
====
